---- MODULE Spec2Model ----
(***************************************************************************)
(* Request pipeline of the mod.io client (src/modio/client.py): credential *)
(* state, header selection, dispatch of one HTTP request per call, the     *)
(* rate-limit bookkeeping and error classification of _error_check, and    *)
(* the Filter object (src/async_modio/objects.py) whose attribute          *)
(* dictionary becomes the query parameters of a GET request.               *)
(*                                                                         *)
(* A call blocks in the transport between building the request and         *)
(* receiving the response, so every call is two steps of the client        *)
(* (dispatch, completion) with one step of the environment in between      *)
(* (the server answers, or the transport fails).                           *)
(***************************************************************************)
EXTENDS Integers, Sequences, FiniteSets, TLC

VARIABLES
    api_key,        \* Client.api_key
    access_token,   \* Client.access_token
    rate_limit,     \* Client.rate_limit
    rate_remain,    \* Client.rate_remain
    rate_retry,     \* Client.rate_retry
    filt,           \* __dict__ of the caller's Filter object
    pc,             \* "new", "idle", "sent", "responded", "failed"
    op,             \* the Client method the caller is in
    wire,           \* last message on the wire: request, response or none
    checked,        \* outcome of _error_check for the last response
    result,         \* outcome of the last finished call
    fresult,        \* outcome of the last call of a Filter method
    caller,         \* the arguments the caller's program passes to Filter
    frame,          \* filter and extra parameters of the GET being sent
    hist,           \* what the caller has asked of the Filter so far
    obj,            \* a returned object (Pagination, Event) and the last
                    \* method called on it
    conc            \* calls in flight at once on the client, and the
                    \* headers of those that have completed, in order

vars == <<api_key, access_token, rate_limit, rate_remain, rate_retry,
          filt, pc, op, wire, checked, result, fresult, caller,
          frame, hist, obj, conc>>

client == <<api_key, access_token>>
rate == <<rate_limit, rate_remain, rate_retry>>
aside == <<obj, conc>>

----------------------------------------------------------------------------
(* Python values.  Header values are strings, the default of rate_retry is  *)
(* the integer 0 and an unset attribute is None: the tag keeps them apart.  *)

PyNone == [tag |-> "None", val |-> 0]
PyInt(n) == [tag |-> "int", val |-> n]
PyStr(s) == [tag |-> "str", val |-> s]

\* truth value of a Python object: None, 0 and "" are false
Truthy(v) == ~(v = PyNone \/ v = PyInt(0) \/ v = PyStr(""))

\* a dict is a function on a finite set of strings
EmptyDict == [k \in {} |-> PyNone]

\* d.get(k, default)
DictGet(d, k, default) == IF k \in DOMAIN d THEN d[k] ELSE default

\* {**a, **b}: the entries of b win
DictMerge(a, b) ==
    [k \in DOMAIN a \cup DOMAIN b |-> IF k \in DOMAIN b THEN b[k] ELSE a[k]]

\* d[k] = v
DictSet(d, k, v) == [x \in DOMAIN d \cup {k} |-> IF x = k THEN v ELSE d[x]]

----------------------------------------------------------------------------
(* What the server can answer.                                              *)

HdrLimit == "X-RateLimit-Limit"
HdrRemaining == "X-RateLimit-Remaining"
HdrRetryAfter == "X-Ratelimit-RetryAfter"

LimitValues == {"60"}
RemainingValues == {"59"}
RetryAfterValues == {"30"}

HeaderSets ==
    { h \in [ {HdrLimit, HdrRemaining, HdrRetryAfter} ->
              LimitValues \cup RemainingValues \cup RetryAfterValues \cup {"-"} ] :
        /\ h[HdrLimit] \in LimitValues \cup {"-"}
        /\ h[HdrRemaining] \in RemainingValues \cup {"-"}
        /\ h[HdrRetryAfter] \in RetryAfterValues \cup {"-"} }

\* the headers of a response: "-" above stands for a header that is not sent
Headers ==
    { [k \in {x \in DOMAIN h : h[x] # "-"} |-> PyStr(h[k])] : h \in HeaderSets }

StatusCodes == {200, 204, 404}

MappedCodes == {400, 401, 403, 404, 405, 406, 410, 422, 429}
ErrorCodes == MappedCodes \cup {418}
Messages == {"m1", "m2"}
SubErrors == { <<"e1", "e2">> }
CodesWithErrors == {400, 422}

Envelopes ==
    { [code |-> c, message |-> m] : c \in ErrorCodes, m \in Messages }
    \cup { [code |-> c, message |-> m, errors |-> s] :
             c \in CodesWithErrors, m \in Messages, s \in SubErrors }

ErrorBodies == { [error |-> e] : e \in Envelopes }

TokenBody == [access_token |-> "newtok"]
MessageBody == [code |-> 200, message |-> "sent"]
ListBody == [data |-> <<>>, result_count |-> 0, result_limit |-> 20,
             result_offset |-> 0, result_total |-> 0]
UserBody == [id |-> 1, name_id |-> "u", username |-> "u", date_online |-> 0,
             avatar |-> "a", timezone |-> "z", language |-> "en",
             profile_url |-> "p"]
PlainBodies == {TokenBody, MessageBody, ListBody, UserBody}

\* a body that is not JSON (for instance the empty body of a 204)
NoJson == [json |-> FALSE, body |-> EmptyDict]
Json(b) == [json |-> TRUE, body |-> b]

Contents == {NoJson} \cup { Json(b) : b \in ErrorBodies \cup PlainBodies }

Responses ==
    { [type |-> "response", status_code |-> s, headers |-> h, content |-> c] :
        s \in StatusCodes, h \in Headers, c \in Contents }

NoMsg == [type |-> "none"]

\* a client exists and no call is in progress
Idle == pc = "idle"

\* no returned object is being used
NoObj == [kind |-> "none"]

\* every call on the client runs to its end before the next one starts
NoConc == [calls |-> <<>>, done |-> <<>>]

----------------------------------------------------------------------------
(* Outcomes of a call: a returned value or a raised exception with the      *)
(* arguments its constructor was given.                                     *)

PyList(s) == [tag |-> "list", val |-> s]

NoOutcome == [kind |-> "none"]
Returns(v) == [kind |-> "return", value |-> v]
Raises(exc, args) == [kind |-> "raise", exc |-> exc, args |-> args]

\* the Response object itself, as _error_check returns it for a 204
ResponseObject(r) == [tag |-> "Response", val |-> r.status_code]
\* a decoded JSON body
JsonObject(b) == [tag |-> "json", val |-> b]

----------------------------------------------------------------------------
(* Client._error_check                                                      *)

\* Classify with the 410 branch raising the kind of the branch above it
Classify_gone_as_not_acceptable(error, retry) ==
    LET code == error.code
        msg == error.message
    IN  IF code = 400 THEN Raises("BadRequest", <<msg>>)
        ELSE IF code = 401 THEN Raises("Unauthorized", <<msg>>)
        ELSE IF code = 403 THEN Raises("Forbidden", <<msg>>)
        ELSE IF code = 404 THEN Raises("NotFound", <<msg>>)
        ELSE IF code = 405 THEN Raises("MethodNotAllowed", <<msg>>)
        ELSE IF code = 406 THEN Raises("NotAcceptable", <<msg>>)
        ELSE IF code = 410 THEN Raises("NotAcceptable", <<msg>>)
        ELSE IF code = 422 THEN
            LET errors == IF "errors" \in DOMAIN error
                          THEN PyList(error.errors)
                          ELSE PyNone
            IN  Raises("UnprocessableEntity", <<msg, errors>>)
        ELSE IF code = 429 THEN Raises("TooManyRequests", <<msg, retry>>)
        ELSE Raises("modioException", <<msg>>)

\* Classify with the 422 branch never reading the errors entry
Classify_without_errors(error, retry) ==
    LET code == error.code
        msg == error.message
    IN  IF code = 400 THEN Raises("BadRequest", <<msg>>)
        ELSE IF code = 401 THEN Raises("Unauthorized", <<msg>>)
        ELSE IF code = 403 THEN Raises("Forbidden", <<msg>>)
        ELSE IF code = 404 THEN Raises("NotFound", <<msg>>)
        ELSE IF code = 405 THEN Raises("MethodNotAllowed", <<msg>>)
        ELSE IF code = 406 THEN Raises("NotAcceptable", <<msg>>)
        ELSE IF code = 410 THEN Raises("Gone", <<msg>>)
        ELSE IF code = 422 THEN Raises("UnprocessableEntity", <<msg, PyNone>>)
        ELSE IF code = 429 THEN Raises("TooManyRequests", <<msg, retry>>)
        ELSE Raises("modioException", <<msg>>)

\* the if/elif chain on the envelope's code; retry is self.rate_retry as it
\* is when the chain runs
Classify(error, retry) ==
    LET code == error.code
        msg == error.message
    IN  IF code = 400 THEN Raises("BadRequest", <<msg>>)
        ELSE IF code = 401 THEN Raises("Unauthorized", <<msg>>)
        ELSE IF code = 403 THEN Raises("Forbidden", <<msg>>)
        ELSE IF code = 404 THEN Raises("NotFound", <<msg>>)
        ELSE IF code = 405 THEN Raises("MethodNotAllowed", <<msg>>)
        ELSE IF code = 406 THEN Raises("NotAcceptable", <<msg>>)
        ELSE IF code = 410 THEN Raises("Gone", <<msg>>)
        ELSE IF code = 422 THEN
            LET errors == IF "errors" \in DOMAIN error
                          THEN PyList(error.errors)
                          ELSE PyNone
            IN  Raises("UnprocessableEntity", <<msg, errors>>)
        ELSE IF code = 429 THEN Raises("TooManyRequests", <<msg, retry>>)
        ELSE Raises("modioException", <<msg>>)

\* UpdateLimit with a missing header resetting the field
UpdateLimit_reset(r, old) == DictGet(r.headers, HdrLimit, PyNone)

\* UpdateRetry with a missing header keeping the last value
UpdateRetry_sticky(r, old) == DictGet(r.headers, HdrRetryAfter, old)

\* the three assignments at the head of _error_check
UpdateLimit(r, old) == DictGet(r.headers, HdrLimit, old)
UpdateRemain(r, old) == DictGet(r.headers, HdrRemaining, old)
UpdateRetry(r, old) == DictGet(r.headers, HdrRetryAfter, PyInt(0))

\* CheckOutcome with the body decoded before the status is looked at
CheckOutcome_decode_first(r, retry) ==
    IF ~r.content.json THEN Raises("JSONDecodeError", <<>>)
    ELSE IF r.status_code = 204 THEN Returns(ResponseObject(r))
    ELSE LET request_json == r.content.body
         IN  IF "error" \in DOMAIN request_json
             THEN Classify(request_json["error"], retry)
             ELSE Returns(JsonObject(request_json))

\* CheckOutcome that goes by the HTTP status before it looks at the body
CheckOutcome_by_status(r, retry) ==
    IF r.status_code = 204 THEN Returns(ResponseObject(r))
    ELSE IF ~r.content.json THEN Raises("JSONDecodeError", <<>>)
    ELSE LET request_json == r.content.body
         IN  IF r.status_code >= 400
             THEN Classify([code |-> r.status_code, message |-> "error"], retry)
             ELSE Returns(JsonObject(request_json))

\* what _error_check returns or raises, given the updated rate_retry
CheckOutcome(r, retry) ==
    IF r.status_code = 204 THEN Returns(ResponseObject(r))
    ELSE IF ~r.content.json THEN Raises("JSONDecodeError", <<>>)
    ELSE LET request_json == r.content.body
         IN  IF "error" \in DOMAIN request_json
             THEN Classify(request_json["error"], retry)
             ELSE Returns(JsonObject(request_json))

\* _error_check with the fields updated only when nothing is raised
_error_check_update_on_success(r) ==
    LET retry == UpdateRetry(r, rate_retry)
        outcome == CheckOutcome(r, retry)
        ok == outcome.kind = "return"
    IN  [ rate_limit |-> IF ok THEN UpdateLimit(r, rate_limit) ELSE rate_limit,
          rate_remain |-> IF ok THEN UpdateRemain(r, rate_remain) ELSE rate_remain,
          rate_retry |-> IF ok THEN retry ELSE rate_retry,
          outcome |-> outcome ]

\* _error_check with the failure built from rate_retry as it was before the
\* update
_error_check_stale_retry(r) ==
    [ rate_limit |-> UpdateLimit(r, rate_limit),
      rate_remain |-> UpdateRemain(r, rate_remain),
      rate_retry |-> UpdateRetry(r, rate_retry),
      outcome |-> CheckOutcome(r, rate_retry) ]

\* the whole method: new field values and the outcome
_error_check(r) ==
    LET retry == UpdateRetry(r, rate_retry)
    IN  [ rate_limit |-> UpdateLimit(r, rate_limit),
          rate_remain |-> UpdateRemain(r, rate_remain),
          rate_retry |-> retry,
          outcome |-> CheckOutcome(r, retry) ]

----------------------------------------------------------------------------
(* Client._define_headers                                                   *)

Lang == "en"

\* 'Bearer ' + self.access_token is a TypeError when the token is None
_define_headers_raises(h_type) ==
    h_type \in {0, 1} /\ access_token.tag # "str"

_define_headers(h_type) ==
    IF h_type = 0 THEN
        ("Authorization" :> ("Bearer " \o access_token.val))
        @@ ("Content-Type" :> "application/x-www-form-urlencoded")
        @@ ("Accept" :> "application/json")
        @@ ("Accept-Language" :> Lang)
    ELSE IF h_type = 1 THEN
        ("Authorization" :> ("Bearer " \o access_token.val))
        @@ ("Accept" :> "application/json")
        @@ ("Accept-Language" :> Lang)
    ELSE
        ("Accept" :> "application/json")
        @@ ("Accept-Language" :> Lang)
        @@ ("Content-Type" :> "application/x-www-form-urlencoded")

Request(method, url, h_type, kwargs) ==
    [ type |-> "request", method |-> method, url |-> url, h_type |-> h_type,
      headers |-> _define_headers(h_type), kwargs |-> kwargs ]

----------------------------------------------------------------------------
(* Filter (src/async_modio/objects.py).  The state of a Filter is its       *)
(* instance dictionary, which _get_request copies into the parameters.      *)

PyEnum(cls, name, value) == [tag |-> "enum", val |-> <<cls, name, value>>]

\* enums.EventType, member names by value 0..10
EventTypeNames == <<"file_changed", "available", "unavailable", "edited",
                    "deleted", "team_changed", "team_join", "team_leave",
                    "subscribe", "unsubscribe", "other">>
EventType(name) ==
    PyEnum("EventType", name,
           (CHOOSE i \in 1..Len(EventTypeNames) : EventTypeNames[i] = name) - 1)

\* str.upper() on the member names
Upper(name) ==
    CASE name = "file_changed" -> "FILE_CHANGED"
      [] name = "available" -> "AVAILABLE"
      [] name = "unavailable" -> "UNAVAILABLE"
      [] name = "edited" -> "EDITED"
      [] name = "deleted" -> "DELETED"
      [] name = "team_changed" -> "TEAM_CHANGED"
      [] name = "team_join" -> "TEAM_JOIN"
      [] name = "team_leave" -> "TEAM_LEAVE"
      [] name = "subscribe" -> "SUBSCRIBE"
      [] name = "unsubscribe" -> "UNSUBSCRIBE"
      [] name = "other" -> "OTHER"
      [] name = "accepted" -> "ACCEPTED"

\* utils._lib_to_api: library-facing names to wire names
_lib_to_api == ("date" :> "date_added")

LibToApi(key) == DictGet(_lib_to_api, key, key)

\* value.value on something that is no enum member is an AttributeError
_set_raises(key, value) ==
    LibToApi(key) = "event_type" /\ value.tag # "enum"

\* _set with every event type below 6 given the MOD_ prefix
_set_value_uniform_prefix(key, value) ==
    LET v1 == IF LibToApi(key) = "event_type"
              THEN IF value.val[3] < 6
                   THEN PyStr("MOD_" \o Upper(value.val[2]))
                   ELSE PyStr("USER_" \o Upper(value.val[2]))
              ELSE value
    IN  IF v1.tag = "enum" THEN PyInt(v1.val[3]) ELSE v1

\* the value Filter._set stores
_set_value(key, value) ==
    LET v1 == IF LibToApi(key) = "event_type"
              THEN IF value.val[3] < 6
                   THEN PyStr("MOD"
                          \o (IF value # EventType("file_changed") THEN "_" ELSE "")
                          \o Upper(value.val[2]))
                   ELSE PyStr("USER_" \o Upper(value.val[2]))
              ELSE value
    IN  IF v1.tag = "enum" THEN PyInt(v1.val[3]) ELSE v1

\* _set that keeps the value an attribute already has
_set_keep_first(d, key, value, suffix) ==
    IF LibToApi(key) \o suffix \in DOMAIN d
    THEN d
    ELSE DictSet(d, LibToApi(key) \o suffix, _set_value(key, value))

\* _set that drops the field's attributes of the other categories
_set_exclusive(d, key, value, suffix) ==
    LET others == { LibToApi(key) \o s :
                      s \in {"", "-not", "-lk", "-not-lk", "-in", "-not-in",
                             "-max", "-min", "-st", "-gt", "-bitwise-and"}
                            \ {suffix} }
        kept == [k \in DOMAIN d \ others |-> d[k]]
    IN  DictSet(kept, LibToApi(key) \o suffix, _set_value(key, value))

\* Filter._set(key, value, text) on the dict d; text is "{}" \o suffix
_set(d, key, value, suffix) ==
    DictSet(d, LibToApi(key) \o suffix, _set_value(key, value))

Digit(n) == CASE n = 0 -> "0" [] n = 1 -> "1" [] n = 2 -> "2" [] n = 3 -> "3"
              [] n = 4 -> "4" [] n = 5 -> "5" [] n = 6 -> "6" [] n = 7 -> "7"
              [] n = 8 -> "8" [] n = 9 -> "9"

\* str(x) for a non-negative int or a str
RECURSIVE IntStr(_)
IntStr(n) == IF n < 10 THEN Digit(n) ELSE IntStr(n \div 10) \o Digit(n % 10)
PyToStr(x) == IF x.tag = "int" THEN IntStr(x.val) ELSE x.val

\* the join taken from the last element to the first
RECURSIVE Join_reversed(_)
Join_reversed(seq) ==
    IF seq = <<>> THEN ""
    ELSE IF Len(seq) = 1 THEN PyToStr(seq[1])
    ELSE Join_reversed(Tail(seq)) \o "," \o PyToStr(seq[1])

\* ",".join(str(x) for x in value)
RECURSIVE Join(_)
Join(seq) ==
    IF seq = <<>> THEN ""
    ELSE IF Len(seq) = 1 THEN PyToStr(seq[1])
    ELSE PyToStr(seq[1]) \o "," \o Join(Tail(seq))

\* bound of the model: number of attributes a Filter may hold
MaxFilterParams == 1

\* the keyword names, scalar values and sequences of a caller that filters
\* on one plain column
SortKeys == {"id"}
PlainCaller == [ keys |-> {"id"}, scalars |-> {PyInt(10)},
                 lists |-> {<<PyInt(3), PyInt(11)>>}, sorts |-> SortKeys,
                 size |-> MaxFilterParams ]

\* no Client method is running
NoCall == pc \in {"new", "idle", "failed"}

\* the caller's record of its successful calls: per method and field the
\* argument of the last one, and whether the last one replaced a value
NoHist == [last |-> EmptyDict, replaced |-> FALSE]

FilterSelf == [tag |-> "Filter", val |-> "self"]

\* a method call on the Filter: an instance attribute of the method's name
\* shadows the method, and calling the stored value is a TypeError
FilterCall(method, field, value, uses_set, raises, d) ==
    /\ NoCall
    /\ IF method \in DOMAIN filt \/ (uses_set /\ "_set" \in DOMAIN filt)
       THEN /\ filt' = filt /\ hist' = hist
            /\ fresult' = Raises("TypeError", <<>>)
       ELSE IF raises
       THEN /\ filt' = filt /\ hist' = hist
            /\ fresult' = Raises("AttributeError", <<>>)
       ELSE /\ Cardinality(DOMAIN d) <= caller.size
            /\ filt' = d
            /\ fresult' = Returns(FilterSelf)
            /\ hist' = [last |-> DictSet(hist.last, <<method, field>>, value),
                        replaced |-> \E k \in DOMAIN filt \cap DOMAIN d :
                                         d[k] # filt[k]]
    /\ UNCHANGED <<client, rate, pc, op, wire, checked, result, caller, frame,
                   aside>>

\* a method of one keyword binding that stores through _set
SetCall(method, suffix) ==
    \E key \in caller.keys, value \in caller.scalars :
        FilterCall(method, LibToApi(key), value, TRUE,
                   _set_raises(key, value), _set(filt, key, value, suffix))

\* values_in, values_not_in: the sequence is joined before _set sees it
JoinCall(method, suffix) ==
    \E key \in caller.keys, value \in caller.lists :
        FilterCall(method, LibToApi(key), value, TRUE,
                   _set_raises(key, PyStr(Join(value))),
                   _set(filt, key, PyStr(Join(value)), suffix))

Filter_text ==
    FilterCall("text", "", PyStr("query"), FALSE, FALSE,
               DictSet(filt, "_q", PyStr("query")))
Filter_equals == SetCall("equals", "")
Filter_not_equals == SetCall("not_equals", "-not")
Filter_like == SetCall("like", "-lk")
Filter_not_like == SetCall("not_like", "-not-lk")
Filter_values_in == JoinCall("values_in", "-in")
Filter_values_not_in == JoinCall("values_not_in", "-not-in")
Filter_max == SetCall("max", "-max")
Filter_min == SetCall("min", "-min")
Filter_smaller_than == SetCall("smaller_than", "-st")
Filter_greater_than == SetCall("greater_than", "-gt")
Filter_bitwise == SetCall("bitwise", "-bitwise-and")
\* sort that always asks for ascending order
Filter_sort_ascending ==
    \E key \in caller.sorts, reverse \in BOOLEAN :
        FilterCall("sort", "", <<key, reverse>>, FALSE, FALSE,
            DictSet(filt, "_sort", PyStr(key)))

Filter_sort ==
    \E key \in caller.sorts, reverse \in BOOLEAN :
        FilterCall("sort", "", <<key, reverse>>, FALSE, FALSE,
            DictSet(filt, "_sort", PyStr(IF ~reverse THEN key ELSE "-" \o key)))
Filter_limit ==
    FilterCall("limit", "", PyInt(20), FALSE, FALSE,
               DictSet(filt, "_limit", PyInt(20)))
Filter_offset ==
    FilterCall("offset", "", PyInt(5), FALSE, FALSE,
               DictSet(filt, "_offset", PyInt(5)))

----------------------------------------------------------------------------
(* Inputs of the calls.                                                     *)

ApiKeys == {PyNone, PyStr("key")}
Tokens == {PyNone, PyStr("tok")}
HTypes == {0, 1, 2}
\* explicit extra parameters of a GET
GetFields == {EmptyDict, ("_limit" :> PyInt(5))}
\* keyword arguments handed through to the transport by POST, PUT, DELETE
SendKwargs == {EmptyDict, [data |-> ("name" :> PyStr("n"))]}
SecurityCodes == {"12345", "1234"}
Emails == {"a@b.c"}

----------------------------------------------------------------------------
(* Dispatch: the part of a call that runs until the transport blocks.       *)

\* outside a GET, and once its request is answered, no arguments of it are
\* alive
NoFrame == [f |-> PyNone, fields |-> EmptyDict]

\* Send with the retry-after cleared whenever a request goes out
Send_clears_retry(o, req, a) ==
    /\ op' = o
    /\ frame' = a
    /\ pc' = "sent"
    /\ wire' = req
    /\ checked' = NoOutcome
    /\ result' = NoOutcome
    /\ rate_retry' = PyInt(0)
    /\ UNCHANGED <<client, rate_limit, rate_remain, filt, fresult, caller,
                   hist, aside>>

\* the request is handed to the transport
Send(o, req, a) ==
    /\ op' = o
    /\ frame' = a
    /\ pc' = "sent"
    /\ wire' = req
    /\ checked' = NoOutcome
    /\ result' = NoOutcome
    /\ UNCHANGED <<client, rate, filt, fresult, caller, hist, aside>>

\* the call ends before anything is sent
Fail(o, outcome) ==
    /\ op' = o
    /\ frame' = NoFrame
    /\ pc' = IF pc = "new" THEN "failed" ELSE "idle"
    /\ wire' = NoMsg
    /\ checked' = NoOutcome
    /\ result' = outcome
    /\ UNCHANGED <<client, rate, filt, fresult, caller, hist, aside>>

\* _get_request with the API key attached whether or not a token is held
_get_request_always_key(o, url, h_type, f, fields) ==
    LET fd == IF f = PyNone THEN EmptyDict ELSE f
        extra == DictSet(DictMerge(fields, fd), "api_key", api_key)
        kind == IF ~Truthy(access_token) THEN 2 ELSE h_type
    IN  IF _define_headers_raises(kind)
        THEN Fail(o, Raises("TypeError", <<>>))
        ELSE Send(o, Request("GET", url, kind, [params |-> extra]),
                  [f |-> f, fields |-> fields])

\* _get_request that merges the parameters into the Filter's own dict
_get_request_in_place(o, url, h_type, f, fields) ==
    LET fd == IF f = PyNone THEN EmptyDict ELSE f
        merged == DictMerge(fields, fd)
        extra == IF ~Truthy(access_token)
                 THEN DictSet(merged, "api_key", api_key) ELSE merged
        kind == IF ~Truthy(access_token) THEN 2 ELSE h_type
    IN  IF _define_headers_raises(kind)
        THEN Fail(o, Raises("TypeError", <<>>))
        ELSE /\ op' = o
             /\ frame' = [f |-> f, fields |-> fields]
             /\ pc' = "sent"
             /\ wire' = Request("GET", url, kind, [params |-> extra])
             /\ checked' = NoOutcome
             /\ result' = NoOutcome
             /\ filt' = IF f = PyNone THEN filt ELSE extra
             /\ UNCHANGED <<client, rate, fresult, caller, hist, aside>>

\* Client._get_request(url, h_type=h_type, filter=f, **fields); f is None or
\* the dict of a Filter, and Filter() has an empty dict
_get_request(o, url, h_type, f, fields) ==
    LET fd == IF f = PyNone THEN EmptyDict ELSE f
        extra == DictMerge(fields, fd)
    IN  IF ~Truthy(access_token)
        THEN Send(o, Request("GET", url, 2,
                             [params |-> DictSet(extra, "api_key", api_key)]),
                  [f |-> f, fields |-> fields])
        ELSE IF _define_headers_raises(h_type)
        THEN Fail(o, Raises("TypeError", <<>>))
        ELSE Send(o, Request("GET", url, h_type, [params |-> extra]),
                  [f |-> f, fields |-> fields])

\* Client._post_request, _put_request, _delete_request
_send_request(o, method, url, h_type, kwargs) ==
    IF _define_headers_raises(h_type)
    THEN Fail(o, Raises("TypeError", <<>>))
    ELSE Send(o, Request(method, url, h_type, kwargs), NoFrame)

\* Client.__init__ after its field assignments: the credential check
Client_init ==
    /\ pc = "new"
    /\ IF Truthy(access_token)
       THEN _get_request("__init__", "/me", 0, PyNone, EmptyDict)
       ELSE _get_request("__init__", "/games", 0, PyNone, EmptyDict)

\* the pass-through verbs as entity methods use them
get_request ==
    /\ Idle
    /\ \E h_type \in HTypes, f \in {PyNone, filt}, fields \in GetFields :
         _get_request("_get_request", "/x", h_type, f, fields)

post_request ==
    /\ Idle
    /\ \E h_type \in HTypes, kwargs \in SendKwargs :
         _send_request("_post_request", "POST", "/x", h_type, kwargs)

put_request ==
    /\ Idle
    /\ \E h_type \in HTypes, kwargs \in SendKwargs :
         _send_request("_put_request", "PUT", "/x", h_type, kwargs)

delete_request ==
    /\ Idle
    /\ \E h_type \in HTypes, kwargs \in SendKwargs :
         _send_request("_delete_request", "DELETE", "/x", h_type, kwargs)

get_games ==
    /\ Idle
    /\ \E f \in {PyNone, filt} :
         _get_request("get_games", "/games", 0, f, EmptyDict)

get_my_user ==
    /\ Idle
    /\ _get_request("get_my_user", "/me", 0, PyNone, EmptyDict)

email_request ==
    /\ Idle
    /\ \E email \in Emails :
         _send_request("email_request", "POST", "/oauth/emailrequest", 2,
             [params |-> ("email" :> PyStr(email)) @@ ("api_key" :> api_key)])

\* email_exchange without the test of the code's length
email_exchange_any_length ==
    /\ Idle
    /\ \E code \in SecurityCodes :
         _send_request("email_exchange", "POST", "/oauth/emailexchange", 2,
             [params |-> ("security_code" :> PyStr(code))
                         @@ ("api_key" :> api_key)])

email_exchange ==
    /\ Idle
    /\ \E code \in SecurityCodes :
         IF Len(code) # 5
         THEN Fail("email_exchange", Raises("ValueError",
                       <<"Security code must be 5 digits">>))
         ELSE _send_request("email_exchange", "POST", "/oauth/emailexchange", 2,
                  [params |-> ("security_code" :> PyStr(code))
                              @@ ("api_key" :> api_key)])

steam_auth ==
    /\ Idle
    /\ _send_request("steam_auth", "POST", "/external/steamauth", 0,
           [data |-> ("appdata" :> PyStr("ticket"))])

----------------------------------------------------------------------------
(* Completion: the part of a call that runs once the response is there.     *)

\* building a record from **json: the first key that attrs.pop misses is a
\* KeyError, a Response object (204) is no mapping at all
Construct(chk, keys, object) ==
    IF chk.kind = "raise" THEN chk
    ELSE IF chk.value.tag # "json" THEN Raises("TypeError", <<>>)
    ELSE LET body == chk.value.val
             missing == {i \in 1..Len(keys) : keys[i] \notin DOMAIN body}
         IN  IF missing # {}
             THEN Raises("KeyError",
                         <<keys[CHOOSE i \in missing : \A j \in missing : i <= j]>>)
             ELSE Returns(object)

MessageKeys == <<"code", "message">>
UserKeys == <<"id", "name_id", "username", "date_online", "avatar",
              "timezone", "language", "profile_url">>
ListKeys == <<"data", "result_count", "result_limit", "result_offset",
              "result_total">>

\* Pagination with the limit taken for the count
Pagination_count_is_limit(attrs) ==
    [ count |-> attrs.result_limit, limit |-> attrs.result_limit,
      offset |-> attrs.result_offset, total |-> attrs.result_total ]

\* Pagination.__init__
Pagination(attrs) ==
    [ count |-> attrs.result_count, limit |-> attrs.result_limit,
      offset |-> attrs.result_offset, total |-> attrs.result_total ]

\* Returned(results, Pagination(**json)) of the list endpoints
ListResult(chk) ==
    Construct(chk, ListKeys,
              [tag |-> "Returned",
               val |-> [results |-> chk.value.val.data,
                        pagination |-> Pagination(chk.value.val)]])

UserResult(chk) ==
    Construct(chk, UserKeys, [tag |-> "User", val |-> chk.value.val.id])

\* r["access_token"]
TokenResult(chk) ==
    Construct(chk, <<"access_token">>, PyStr(chk.value.val.access_token))

\* what the method does with the value of _error_check
Continue(o, chk) ==
    IF o = "get_games" THEN ListResult(chk)
    ELSE IF o = "get_my_user" THEN UserResult(chk)
    ELSE IF o = "email_request"
        THEN Construct(chk, MessageKeys, [tag |-> "Message", val |-> chk.value.val])
    ELSE IF o \in {"email_exchange", "steam_auth"} THEN TokenResult(chk)
    ELSE IF o = "__init__" THEN
        IF Truthy(access_token)
        THEN LET u == UserResult(chk)
             IN  IF u.kind = "raise" /\ u.exc = "Forbidden"
                 THEN Raises("Forbidden",
                        <<"Invalid token, are you using the right environment?">>)
                 ELSE u
        ELSE ListResult(chk)
    ELSE chk

RespondWith(r) ==
    /\ pc = "sent"
    /\ wire' = r
    /\ pc' = "responded"
    /\ frame' = NoFrame
    /\ UNCHANGED <<client, rate, filt, fresult, op, checked, result, caller,
                   hist, aside>>

\* the server answers the request
Respond == \E r \in Responses : RespondWith(r)

\* the server answers with a plain 200, with all rate-limit headers or none
PlainResponses ==
    { r \in Responses : /\ r.status_code = 200
                        /\ r.content.json
                        /\ r.content.body \in PlainBodies
                        /\ Cardinality(DOMAIN r.headers) \in {0, 3} }
RespondPlain == \E r \in PlainResponses : RespondWith(r)

\* the transport raises instead (connection refused, timeout)
TransportError ==
    /\ pc = "sent"
    /\ wire' = NoMsg
    /\ pc' = IF op = "__init__" THEN "failed" ELSE "idle"
    /\ result' = Raises("ConnectionError", <<>>)
    /\ frame' = NoFrame
    /\ UNCHANGED <<client, rate, filt, fresult, op, checked, caller, hist,
                   aside>>

\* Complete with the API key given up once a token is stored
Complete_drops_key ==
    /\ pc = "responded"
    /\ LET c == _error_check(wire)
           out == Continue(op, c.outcome)
           stored == op = "email_exchange" /\ out.kind = "return"
       IN  /\ rate_limit' = c.rate_limit
           /\ rate_remain' = c.rate_remain
           /\ rate_retry' = c.rate_retry
           /\ checked' = c.outcome
           /\ result' = out
           /\ access_token' = IF stored THEN out.value ELSE access_token
           /\ api_key' = IF stored THEN PyNone ELSE api_key
           /\ pc' = IF op = "__init__" /\ out.kind = "raise"
                    THEN "failed" ELSE "idle"
    /\ UNCHANGED <<filt, fresult, op, wire, caller, frame, hist, aside>>

\* Complete that sends a request again when the API says TooManyRequests
Complete_resends ==
    /\ pc = "responded"
    /\ LET c == _error_check(wire)
           out == Continue(op, c.outcome)
           again == c.outcome.kind = "raise"
                    /\ c.outcome.exc = "TooManyRequests"
       IN  /\ rate_limit' = c.rate_limit
           /\ rate_remain' = c.rate_remain
           /\ rate_retry' = c.rate_retry
           /\ checked' = c.outcome
           /\ result' = IF again THEN NoOutcome ELSE out
           /\ access_token' = IF op = "email_exchange" /\ out.kind = "return"
                              THEN out.value
                              ELSE access_token
           /\ wire' = IF again
                      THEN Request("GET", "/games", 2,
                                   [params |-> ("api_key" :> api_key)])
                      ELSE wire
           /\ pc' = IF again THEN "sent"
                    ELSE IF op = "__init__" /\ out.kind = "raise"
                    THEN "failed" ELSE "idle"
    /\ UNCHANGED <<api_key, filt, fresult, op, caller, frame, hist, aside>>

\* the call resumes with the response: _error_check, then the rest of the
\* method
Complete ==
    /\ pc = "responded"
    /\ LET c == _error_check(wire)
           out == Continue(op, c.outcome)
       IN  /\ rate_limit' = c.rate_limit
           /\ rate_remain' = c.rate_remain
           /\ rate_retry' = c.rate_retry
           /\ checked' = c.outcome
           /\ result' = out
           /\ access_token' = IF op = "email_exchange" /\ out.kind = "return"
                              THEN out.value
                              ELSE access_token
           /\ pc' = IF op = "__init__" /\ out.kind = "raise"
                    THEN "failed" ELSE "idle"
    /\ UNCHANGED <<api_key, filt, fresult, op, wire, caller, frame, hist,
                   aside>>

----------------------------------------------------------------------------

Init ==
    /\ api_key \in ApiKeys
    /\ access_token \in Tokens
    /\ rate_limit = PyNone
    /\ rate_remain = PyNone
    /\ rate_retry = PyInt(0)
    /\ filt = EmptyDict
    /\ pc = "new"
    /\ op = "__init__"
    /\ wire = NoMsg
    /\ checked = NoOutcome
    /\ result = NoOutcome
    /\ fresult = NoOutcome
    /\ caller = PlainCaller
    /\ frame = NoFrame
    /\ hist = NoHist
    /\ obj = NoObj
    /\ conc = NoConc

Next ==
    \/ Client_init
    \/ get_games
    \/ get_my_user
    \/ email_request
    \/ email_exchange
    \/ steam_auth
    \/ get_request
    \/ post_request
    \/ put_request
    \/ delete_request
    \/ Respond
    \/ TransportError
    \/ Complete

Spec == Init /\ [][Next]_vars

\* the pipeline together with a caller that builds its Filter; the server
\* is well behaved
NextF ==
    \/ Client_init
    \/ get_games
    \/ get_my_user
    \/ email_request
    \/ email_exchange
    \/ steam_auth
    \/ get_request
    \/ post_request
    \/ put_request
    \/ delete_request
    \/ RespondPlain
    \/ TransportError
    \/ Complete
    \/ Filter_text
    \/ Filter_equals
    \/ Filter_not_equals
    \/ Filter_like
    \/ Filter_not_like
    \/ Filter_values_in
    \/ Filter_values_not_in
    \/ Filter_max
    \/ Filter_min
    \/ Filter_smaller_than
    \/ Filter_greater_than
    \/ Filter_bitwise
    \/ Filter_sort
    \/ Filter_limit
    \/ Filter_offset

SpecF == Init /\ [][NextF]_vars

----------------------------------------------------------------------------
(* The Filter on its own: callers with richer arguments, no Client call.    *)

\* bound of the model: number of attributes a Filter may hold when it is
\* built on its own
MaxBuilderParams == 2

\* enums.Status.accepted
StatusAccepted == PyEnum("Status", "accepted", 1)

\* the caller of examples/filter.py: one column, several values and sorts
ExampleCaller ==
    [ keys |-> {"id"}, scalars |-> {PyInt(10), PyInt(3)},
      lists |-> {<<PyInt(3), PyInt(11), PyInt(16)>>, <<PyInt(16), PyInt(3)>>},
      sorts |-> {"name", "id"}, size |-> MaxBuilderParams ]

\* a caller that names one column by its library name and by its wire name
DateCaller ==
    [ keys |-> {"date", "date_added"}, scalars |-> {PyInt(7), PyInt(8)},
      lists |-> {}, sorts |-> {}, size |-> MaxBuilderParams ]

\* callers that filter events by type
ModEventCaller ==
    [ keys |-> {"event_type"},
      scalars |-> { EventType(EventTypeNames[i]) : i \in 1..6 },
      lists |-> {}, sorts |-> {}, size |-> MaxBuilderParams ]
UserEventCaller ==
    [ keys |-> {"event_type"},
      scalars |-> { EventType(EventTypeNames[i]) : i \in 7..11 },
      lists |-> {}, sorts |-> {}, size |-> MaxBuilderParams ]

\* a caller that passes enum members for another column
EnumCaller ==
    [ keys |-> {"status"},
      scalars |-> {StatusAccepted, EventType("team_join")},
      lists |-> {}, sorts |-> {}, size |-> MaxBuilderParams ]

\* a caller whose column has the name of a Filter method
ShadowCaller ==
    [ keys |-> {"limit"}, scalars |-> {PyInt(5)},
      lists |-> {}, sorts |-> {}, size |-> MaxBuilderParams ]

\* a caller that passes the number of an event type, or several of them
RawEventCaller ==
    [ keys |-> {"event_type"}, scalars |-> {PyInt(3)},
      lists |-> {<<PyInt(1), PyInt(3)>>}, sorts |-> {},
      size |-> MaxBuilderParams ]

Callers == { ExampleCaller, DateCaller, ModEventCaller, UserEventCaller,
             EnumCaller, ShadowCaller, RawEventCaller }

InitB ==
    /\ api_key = PyStr("key")
    /\ access_token = PyNone
    /\ rate_limit = PyNone
    /\ rate_remain = PyNone
    /\ rate_retry = PyInt(0)
    /\ filt = EmptyDict
    /\ pc = "new"
    /\ op = "__init__"
    /\ wire = NoMsg
    /\ checked = NoOutcome
    /\ result = NoOutcome
    /\ fresult = NoOutcome
    /\ caller \in Callers
    /\ frame = NoFrame
    /\ hist = NoHist
    /\ obj = NoObj
    /\ conc = NoConc

NextB ==
    \/ Filter_text
    \/ Filter_equals
    \/ Filter_not_equals
    \/ Filter_like
    \/ Filter_not_like
    \/ Filter_values_in
    \/ Filter_values_not_in
    \/ Filter_max
    \/ Filter_min
    \/ Filter_smaller_than
    \/ Filter_greater_than
    \/ Filter_bitwise
    \/ Filter_sort
    \/ Filter_limit
    \/ Filter_offset

SpecB == InitB /\ [][NextB]_vars

----------------------------------------------------------------------------
(* Objects returned by the list endpoints, on their own: a Pagination, or   *)
(* an Event whose type reads what a Filter serialized.                      *)

\* bound of the model: the small counts, limits and offsets of a page
MaxPage == 3

\* the numbers of the documented pages come on top of the small ones
Counts == 0..MaxPage \cup {17, 20}
Limits == 1..MaxPage \cup {20}
Offsets == 0..MaxPage \cup {20, 40}
Totals == 0..(2 * MaxPage) \cup {57}

\* bodies of list responses: at most limit results, none beyond the total
ListBodies ==
    { [ data |-> [i \in 1..c |-> i], result_count |-> c, result_limit |-> l,
        result_offset |-> o, result_total |-> t ] :
        c \in Counts, l \in Limits, o \in Offsets, t \in Totals }

PageBodies ==
    { b \in ListBodies : /\ b.result_count <= b.result_limit
                         /\ b.result_offset + b.result_count <= b.result_total }

PyBool(b) == [tag |-> "bool", val |-> b]

Pagination_max(self) == (self.offset + self.count) = self.total
Pagination_min(self) == self.offset = 0
\* next() that moves on from the last page too
Pagination_next_unchecked(self) == self.offset + self.limit

Pagination_next(self) ==
    IF ~Pagination_max(self) THEN self.offset + self.limit ELSE self.offset
Pagination_previous(self) ==
    IF ~Pagination_min(self) THEN self.offset - self.limit ELSE self.offset
Pagination_page(self) == self.offset \div self.limit

\* str.startswith, str.replace(old, "") and str.lower on the event names
StartsWith(s, prefix) ==
    Len(s) >= Len(prefix) /\ SubSeq(s, 1, Len(prefix)) = prefix

RECURSIVE Remove(_, _)
Remove(s, old) ==
    IF Len(s) < Len(old) THEN s
    ELSE IF SubSeq(s, 1, Len(old)) = old
    THEN Remove(SubSeq(s, Len(old) + 1, Len(s)), old)
    ELSE SubSeq(s, 1, 1) \o Remove(SubSeq(s, 2, Len(s)), old)

LowerChar(c) ==
    CASE c = "A" -> "a" [] c = "B" -> "b" [] c = "C" -> "c" [] c = "D" -> "d"
      [] c = "E" -> "e" [] c = "F" -> "f" [] c = "G" -> "g" [] c = "H" -> "h"
      [] c = "I" -> "i" [] c = "J" -> "j" [] c = "K" -> "k" [] c = "L" -> "l"
      [] c = "M" -> "m" [] c = "N" -> "n" [] c = "O" -> "o" [] c = "P" -> "p"
      [] c = "Q" -> "q" [] c = "R" -> "r" [] c = "S" -> "s" [] c = "T" -> "t"
      [] c = "U" -> "u" [] c = "V" -> "v" [] c = "W" -> "w" [] c = "X" -> "x"
      [] c = "Y" -> "y" [] c = "Z" -> "z" [] OTHER -> c

RECURSIVE Lower(_)
Lower(s) ==
    IF Len(s) = 0 THEN ""
    ELSE LowerChar(SubSeq(s, 1, 1)) \o Lower(SubSeq(s, 2, Len(s)))

\* EventType[name]: a name that is no member is a KeyError
EventTypeByName(name) ==
    IF \E i \in 1..Len(EventTypeNames) : EventTypeNames[i] = name
    THEN Returns(EventType(name))
    ELSE Raises("KeyError", <<name>>)

\* Event.type that takes off the prefixes MOD_ and USER_ only
Event_type_one_prefix(raw) ==
    IF StartsWith(raw, "MOD")
    THEN EventTypeByName(Lower(Remove(raw, "MOD_")))
    ELSE EventTypeByName(Lower(Remove(raw, "USER_")))

\* Event.type on the raw event_type string
Event_type(raw) ==
    IF StartsWith(raw, "MOD")
    THEN EventTypeByName(Lower(Remove(Remove(raw, "MOD_"), "MOD")))
    ELSE EventTypeByName(Lower(Remove(raw, "USER_")))

\* a Pagination built from a list response
PageObjects ==
    { [ kind |-> "Pagination", attrs |-> b, self |-> Pagination(b),
        results |-> b.data, method |-> "__init__", value |-> PyNone ] :
        b \in PageBodies }

\* an Event whose event_type is the string a Filter sends for a member
EventObjects ==
    { [ kind |-> "Event",
        attrs |-> [event_type |-> _set_value("event_type", e).val],
        self |-> e, results |-> <<>>, method |-> "__init__", value |-> PyNone ] :
        e \in { EventType(EventTypeNames[i]) : i \in 1..Len(EventTypeNames) } }

\* a method of the returned object is called
CallObject(kind, method, value) ==
    /\ obj.kind = kind
    /\ obj' = [obj EXCEPT !.method = method, !.value = value]
    /\ UNCHANGED <<client, rate, filt, pc, op, wire, checked, result, fresult,
                   caller, frame, hist, conc>>

Call_max == CallObject("Pagination", "max", PyBool(Pagination_max(obj.self)))
Call_min == CallObject("Pagination", "min", PyBool(Pagination_min(obj.self)))
Call_next == CallObject("Pagination", "next", PyInt(Pagination_next(obj.self)))
Call_previous ==
    CallObject("Pagination", "previous", PyInt(Pagination_previous(obj.self)))
Call_page == CallObject("Pagination", "page", PyInt(Pagination_page(obj.self)))
Call_type == CallObject("Event", "type", Event_type(obj.attrs.event_type))

InitO ==
    /\ api_key = PyStr("key")
    /\ access_token = PyNone
    /\ rate_limit = PyNone
    /\ rate_remain = PyNone
    /\ rate_retry = PyInt(0)
    /\ filt = EmptyDict
    /\ pc = "new"
    /\ op = "__init__"
    /\ wire = NoMsg
    /\ checked = NoOutcome
    /\ result = NoOutcome
    /\ fresult = NoOutcome
    /\ caller = PlainCaller
    /\ frame = NoFrame
    /\ hist = NoHist
    /\ obj \in PageObjects \cup EventObjects
    /\ conc = NoConc

NextO ==
    \/ Call_max
    \/ Call_min
    \/ Call_next
    \/ Call_previous
    \/ Call_page
    \/ Call_type

SpecO == InitO /\ [][NextO]_vars

----------------------------------------------------------------------------
(* Several calls in flight on one client.  A call gives up control only     *)
(* while it waits for the response; from the moment it is resumed with the  *)
(* response until it returns or raises, no other call of the client runs.   *)

MaxCalls == 2
MaxCompleted == 3

CallIds == 1..MaxCalls

\* the calls that wait for a response or hold one
InFlight == { i \in CallIds : conc.calls[i].pc # "idle" }

\* the calls that have entered _error_check and not left it
Running == { i \in CallIds : conc.calls[i].pc \in {"limit", "remain"} }

\* the rate-limit headers the server may send with its n-th answer: the
\* limit and what remains of it, the time to wait, both or neither, with
\* values that differ from answer to answer
StampedHeaders(n) ==
    { [k \in quota \cup wait |->
          PyStr(IF k = HdrLimit THEN ToString(60 + n)
                ELSE IF k = HdrRemaining THEN ToString(60 - n)
                ELSE ToString(n))] :
        quota \in {{}, {HdrLimit, HdrRemaining}}, wait \in {{}, {HdrRetryAfter}} }

\* the scheduler resumes a call only when no other call holds control
Scheduled(i) == Running \subseteq {i}

\* the call builds its request and waits for the response
Call_send(i) ==
    /\ conc.calls[i].pc = "idle"
    /\ Len(conc.done) + Cardinality(InFlight) < MaxCompleted
    /\ conc' = [conc EXCEPT !.calls[i] =
                   [pc |-> "sent",
                    n |-> Len(conc.done) + Cardinality(InFlight) + 1,
                    r |-> NoMsg]]
    /\ UNCHANGED <<client, rate, filt, pc, op, wire, checked, result,
                   fresult, caller, frame, hist, obj>>

\* the server answers the call's request
Call_respond(i) ==
    /\ conc.calls[i].pc = "sent"
    /\ \E h \in StampedHeaders(conc.calls[i].n) :
          conc' = [conc EXCEPT !.calls[i].pc = "answered",
                               !.calls[i].r =
                                   [type |-> "response", status_code |-> 200,
                                    headers |-> h,
                                    content |-> Json(MessageBody)]]
    /\ UNCHANGED <<client, rate, filt, pc, op, wire, checked, result,
                   fresult, caller, frame, hist, obj>>

\* the call is resumed with its response: first assignment of _error_check
Call_store_limit(i) ==
    /\ conc.calls[i].pc = "answered"
    /\ Scheduled(i)
    /\ rate_limit' = UpdateLimit(conc.calls[i].r, rate_limit)
    /\ conc' = [conc EXCEPT !.calls[i].pc = "limit",
                            !.done = Append(@, conc.calls[i].r.headers)]
    /\ UNCHANGED <<client, rate_remain, rate_retry, filt, pc, op, wire,
                   checked, result, fresult, caller, frame, hist, obj>>

\* second assignment of _error_check
Call_store_remain(i) ==
    /\ conc.calls[i].pc = "limit"
    /\ Scheduled(i)
    /\ rate_remain' = UpdateRemain(conc.calls[i].r, rate_remain)
    /\ conc' = [conc EXCEPT !.calls[i].pc = "remain"]
    /\ UNCHANGED <<client, rate_limit, rate_retry, filt, pc, op, wire,
                   checked, result, fresult, caller, frame, hist, obj>>

\* the third assignment keeping the last value when the header is missing
Call_store_retry_sticky(i) ==
    /\ conc.calls[i].pc = "remain"
    /\ Scheduled(i)
    /\ rate_retry' = DictGet(conc.calls[i].r.headers, HdrRetryAfter, rate_retry)
    /\ conc' = [conc EXCEPT !.calls[i] = [pc |-> "idle", n |-> 0, r |-> NoMsg]]
    /\ UNCHANGED <<client, rate_limit, rate_remain, filt, pc, op, wire,
                   checked, result, fresult, caller, frame, hist, obj>>

\* third assignment of _error_check; the call then returns or raises
Call_store_retry(i) ==
    /\ conc.calls[i].pc = "remain"
    /\ Scheduled(i)
    /\ rate_retry' = UpdateRetry(conc.calls[i].r, rate_retry)
    /\ conc' = [conc EXCEPT !.calls[i] = [pc |-> "idle", n |-> 0, r |-> NoMsg]]
    /\ UNCHANGED <<client, rate_limit, rate_remain, filt, pc, op, wire,
                   checked, result, fresult, caller, frame, hist, obj>>

InitC ==
    /\ api_key = PyStr("key")
    /\ access_token = PyNone
    /\ rate_limit = PyNone
    /\ rate_remain = PyNone
    /\ rate_retry = PyInt(0)
    /\ filt = EmptyDict
    /\ pc = "idle"
    /\ op = "__init__"
    /\ wire = NoMsg
    /\ checked = NoOutcome
    /\ result = NoOutcome
    /\ fresult = NoOutcome
    /\ caller = PlainCaller
    /\ frame = NoFrame
    /\ hist = NoHist
    /\ obj = NoObj
    /\ conc = [calls |-> [i \in CallIds |-> [pc |-> "idle", n |-> 0, r |-> NoMsg]],
               done |-> <<>>]

NextC ==
    \/ \E i \in CallIds : Call_send(i)
    \/ \E i \in CallIds : Call_respond(i)
    \/ \E i \in CallIds : Call_store_limit(i)
    \/ \E i \in CallIds : Call_store_remain(i)
    \/ \E i \in CallIds : Call_store_retry(i)

SpecC == InitC /\ [][NextC]_vars

----------------------------------------------------------------------------

(* Properties of the response handling.                                     *)

\* a response has been handled by _error_check and is still the last message
Completed == wire.type = "response" /\ pc # "responded"

\* the handled response carried an error envelope that was classified
Classified ==
    /\ Completed
    /\ wire.status_code # 204
    /\ wire.content.json
    /\ "error" \in DOMAIN wire.content.body

Envelope == wire.content.body["error"]

\* C1: in the step that handles a response, whatever its status and body and
\* whatever the outcome (204, plain body, error envelope, undecodable body),
\* the three rate-limit fields take the values of that response's headers
C1_RateUpdatedOnEveryResponse ==
    [][ pc = "responded" =>
          /\ rate_limit' = (IF HdrLimit \in DOMAIN wire.headers
                            THEN wire.headers[HdrLimit] ELSE rate_limit)
          /\ rate_remain' = (IF HdrRemaining \in DOMAIN wire.headers
                             THEN wire.headers[HdrRemaining] ELSE rate_remain)
          /\ rate_retry' = (IF HdrRetryAfter \in DOMAIN wire.headers
                            THEN wire.headers[HdrRetryAfter] ELSE PyInt(0))
          /\ checked' # NoOutcome ]_vars

\* a call failed with an API error and the fields hold the headers of the
\* failing response
C1_Witness ==
    /\ pc = "idle"
    /\ Classified
    /\ checked.kind = "raise"
    /\ checked.exc = "NotFound"
    /\ DOMAIN wire.headers = {HdrLimit, HdrRemaining, HdrRetryAfter}
    /\ rate_limit = wire.headers[HdrLimit]
    /\ rate_remain = wire.headers[HdrRemaining]
    /\ rate_retry = wire.headers[HdrRetryAfter]

\* C2: a TooManyRequests failure carries the retry-after of the response
\* that produced it (0 when that response has no such header)
C2_TooManyRequestsCarriesOwnRetry ==
    (Completed /\ checked.kind = "raise" /\ checked.exc = "TooManyRequests") =>
        checked.args[2] = (IF HdrRetryAfter \in DOMAIN wire.headers
                           THEN wire.headers[HdrRetryAfter] ELSE PyInt(0))

C2_Witness ==
    /\ pc = "idle"
    /\ Completed
    /\ checked.kind = "raise"
    /\ checked.exc = "TooManyRequests"
    /\ HdrRetryAfter \in DOMAIN wire.headers
    /\ checked.args[2] = wire.headers[HdrRetryAfter]
    /\ checked.args[2] # PyInt(0)

\* C3: handling a response without X-RateLimit-Limit leaves rate_limit as it
\* was, and one without X-RateLimit-Remaining leaves rate_remain as it was
C3_MissingHeaderKeepsValue ==
    [][ pc = "responded" =>
          /\ (HdrLimit \notin DOMAIN wire.headers => rate_limit' = rate_limit)
          /\ (HdrRemaining \notin DOMAIN wire.headers
                => rate_remain' = rate_remain) ]_vars

\* a response without either header has been handled and both fields still
\* hold the values of an earlier response
C3_Witness ==
    /\ Completed
    /\ HdrLimit \notin DOMAIN wire.headers
    /\ HdrRemaining \notin DOMAIN wire.headers
    /\ rate_limit \in {PyStr(v) : v \in LimitValues}
    /\ rate_remain \in {PyStr(v) : v \in RemainingValues}

\* C4: rate_retry is the integer 0 on a fresh client; after a handled
\* response it is that response's X-Ratelimit-RetryAfter, or 0 without one
C4_RetryDefaultsToZero ==
    /\ (pc = "new" => rate_retry = PyInt(0))
    /\ (Completed /\ HdrRetryAfter \notin DOMAIN wire.headers
          => rate_retry = PyInt(0))
    /\ (Completed /\ HdrRetryAfter \in DOMAIN wire.headers
          => rate_retry = wire.headers[HdrRetryAfter])

\* rate_retry is 0 after a response without the header, on a client that
\* has seen rate-limit headers before
C4_Witness ==
    /\ Completed
    /\ HdrRetryAfter \notin DOMAIN wire.headers
    /\ HdrLimit \notin DOMAIN wire.headers
    /\ rate_limit # PyNone
    /\ rate_retry = PyInt(0)

\* C5: the rate-limit fields change only in the step that handles a
\* response; Filter methods, building a request, a transport failure and a
\* rejected security code leave them alone
C5_RateChangesOnlyOnResponse ==
    [][ pc # "responded" => rate' = rate ]_vars

\* a Filter has been built and a call has ended without a response on a
\* client whose fields were set by an earlier response
C5_Witness ==
    /\ filt # EmptyDict
    /\ fresult = Returns(FilterSelf)
    /\ result.kind = "raise"
    /\ result.exc \in {"ValueError", "ConnectionError"}
    /\ rate_limit # PyNone
    /\ rate_retry # PyInt(0)

\* C6: a handled 204 response makes _error_check return the response, with
\* any body: undecodable, plain or an error envelope
C6_NoContentIsSuccess ==
    (Completed /\ wire.status_code = 204) =>
        /\ checked.kind = "return"
        /\ checked.value = ResponseObject(wire)

C6_Witness ==
    /\ pc = "idle"
    /\ Completed
    /\ wire.status_code = 204
    /\ ~wire.content.json
    /\ checked.kind = "return"

\* the kind each envelope code stands for
KindOfCode ==
    (400 :> "BadRequest") @@ (401 :> "Unauthorized") @@ (403 :> "Forbidden")
    @@ (404 :> "NotFound") @@ (405 :> "MethodNotAllowed")
    @@ (406 :> "NotAcceptable") @@ (410 :> "Gone")
    @@ (422 :> "UnprocessableEntity") @@ (429 :> "TooManyRequests")

\* C7: a classified envelope fails with the kind of its code, the generic
\* kind for any other code, and with the envelope's message
C7_ClassificationByCode ==
    Classified =>
        /\ checked.kind = "raise"
        /\ checked.exc = (IF Envelope.code \in DOMAIN KindOfCode
                          THEN KindOfCode[Envelope.code] ELSE "modioException")
        /\ checked.args[1] = Envelope.message

C7_Witness ==
    /\ pc = "idle"
    /\ Classified
    /\ Envelope.code = 418
    /\ checked = Raises("modioException", <<"m2">>)

\* C8: an UnprocessableEntity failure carries the envelope's errors list as
\* it is, and None when the envelope has none
C8_SubErrorsVerbatim ==
    (Classified /\ Envelope.code = 422) =>
        /\ checked.exc = "UnprocessableEntity"
        /\ checked.args[2] = (IF "errors" \in DOMAIN Envelope
                              THEN PyList(Envelope.errors) ELSE PyNone)

C8_Witness ==
    /\ pc = "idle"
    /\ Classified
    /\ Envelope.code = 422
    /\ "errors" \in DOMAIN Envelope
    /\ checked.args[2] = PyList(<<"e1", "e2">>)

----------------------------------------------------------------------------
(* Properties of the requests that go out.                                  *)

OnWire == wire.type = "request"

HasBearer ==
    /\ "Authorization" \in DOMAIN wire.headers
    /\ access_token.tag = "str"
    /\ wire.headers["Authorization"] = "Bearer " \o access_token.val

HasApiKey ==
    /\ "params" \in DOMAIN wire.kwargs
    /\ "api_key" \in DOMAIN wire.kwargs.params
    /\ wire.kwargs.params["api_key"] = api_key

\* a call ended in _define_headers, on 'Bearer ' + None
HeadersFailed ==
    /\ pc = "idle"
    /\ wire = NoMsg
    /\ result = Raises("TypeError", <<>>)

\* C9: a call made on a client that holds an API key and no access token
\* goes out with header kind 2, no Authorization header and the API key as
\* the api_key parameter, whatever the verb and whatever kind the caller
\* asked for
C9_NoTokenForcesKind2 ==
    (Truthy(api_key) /\ ~Truthy(access_token)) =>
        /\ ~HeadersFailed
        /\ (OnWire => /\ wire.h_type = 2
                      /\ "Authorization" \notin DOMAIN wire.headers
                      /\ HasApiKey)

\* C10: with an access token in the client, every request goes out with
\* Authorization: Bearer <token>
C10_TokenMeansBearer ==
    (OnWire /\ Truthy(access_token)) => HasBearer

----------------------------------------------------------------------------
(* Credentials of the client and of the requests it sends.                  *)

Credentialed == Truthy(api_key) \/ Truthy(access_token)

\* C11: a client that holds neither an API key nor an access token never
\* hands a request to the transport.
C11_NoRequestWithoutCredential == OnWire => Credentialed

\* C12, on a client that holds an API key: exactly one of the two credentials
\* is set, so no access token is.
C12_ExactlyOneCredential ==
    (pc = "idle" /\ Truthy(api_key)) => ~Truthy(access_token)

\* C12, amended: the client keeps the credentials it was built with. api_key
\* is never reassigned, and access_token is reassigned only when an
\* email_exchange succeeds, to the token the server returned; a client holding
\* both is the result.
C12_CredentialsChangeOnlyByExchange ==
    [][ /\ api_key' = api_key
        /\ access_token' # access_token =>
             /\ op = "email_exchange"
             /\ pc = "responded"
             /\ result' = Returns(access_token') ]_vars

C12_Witness ==
    /\ pc = "idle"
    /\ op = "email_exchange"
    /\ result = Returns(access_token)
    /\ Truthy(api_key)
    /\ Truthy(access_token)

CarriesBearer == "Authorization" \in DOMAIN wire.headers
CarriesApiKey ==
    /\ "params" \in DOMAIN wire.kwargs
    /\ "api_key" \in DOMAIN wire.kwargs.params

\* C13: no request handed to the transport carries both an Authorization
\* header and an api_key parameter.
C13_BearerExcludesApiKey == OnWire => ~(CarriesBearer /\ CarriesApiKey)

C13_Witness ==
    /\ OnWire
    /\ wire.method = "GET"
    /\ Truthy(api_key)
    /\ HasBearer
    /\ ~CarriesApiKey

----------------------------------------------------------------------------
(* Parameters of a GET.                                                     *)

\* C14: when a GET is given a filter and explicit extra parameters that
\* define the same name, the request carries the value of the explicit extra
\* parameter.
C14_ExtraParamsWin ==
    (OnWire /\ wire.method = "GET" /\ Credentialed /\ frame.f # PyNone) =>
        \A k \in DOMAIN frame.fields \cap DOMAIN frame.f :
            wire.kwargs.params[k] = frame.fields[k]

----------------------------------------------------------------------------
(* What a built Filter serializes to.                                       *)

\* the suffix each clause category is documented with
Suffix == [ equals |-> "", not_equals |-> "-not", like |-> "-lk",
            not_like |-> "-not-lk", values_in |-> "-in",
            values_not_in |-> "-not-in", max |-> "-max", min |-> "-min",
            smaller_than |-> "-st", greater_than |-> "-gt",
            bitwise |-> "-bitwise-and" ]
Clauses == DOMAIN Suffix
ListClauses == {"values_in", "values_not_in"}

\* the calls the caller has made successfully, as <<method, field>>
Made == DOMAIN hist.last
ParamName(p) == p[2] \o Suffix[p[1]]

\* the comma-joined forms of the sequences the callers pass
Joined(seq) ==
    CASE seq = <<PyInt(3), PyInt(11), PyInt(16)>> -> "3,11,16"
      [] seq = <<PyInt(16), PyInt(3)>> -> "16,3"
      [] seq = <<PyInt(3), PyInt(11)>> -> "3,11"
      [] seq = <<PyInt(1), PyInt(3)>> -> "1,3"

\* the wire names of the event types
EventOnWire ==
    [ file_changed |-> "MODFILE_CHANGED", available |-> "MOD_AVAILABLE",
      unavailable |-> "MOD_UNAVAILABLE", edited |-> "MOD_EDITED",
      deleted |-> "MOD_DELETED", team_changed |-> "MOD_TEAM_CHANGED",
      team_join |-> "USER_TEAM_JOIN", team_leave |-> "USER_TEAM_LEAVE",
      subscribe |-> "USER_SUBSCRIBE", unsubscribe |-> "USER_UNSUBSCRIBE",
      other |-> "USER_OTHER" ]

\* what the argument of a clause call is sent as
Serialized(p, raw) ==
    IF p[1] \in ListClauses THEN PyStr(Joined(raw))
    ELSE IF raw.tag # "enum" THEN raw
    ELSE IF p[2] = "event_type" THEN PyStr(EventOnWire[raw.val[2]])
    ELSE PyInt(raw.val[3])

\* C15: after any sequence of builder calls the Filter holds, for every
\* category and field the caller has set, one entry whose value is that of
\* the last call for the pair.
C15_LastCallWins ==
    \A p \in Made :
        p[1] \in Clauses =>
            /\ ParamName(p) \in DOMAIN filt
            /\ filt[ParamName(p)] = Serialized(p, hist.last[p])

\* a clause has just been applied again, with another value
C15_Witness ==
    /\ hist.replaced
    /\ fresult = Returns(FilterSelf)
    /\ \E p \in Made : p[1] \in Clauses
    /\ \A k \in DOMAIN filt : k \notin {"_sort", "_q", "_limit", "_offset"}
    /\ Cardinality(DOMAIN filt) = 1

\* the clause calls of this step: a pair set for the first time or set to
\* another argument
Applied(p) == p[1] \in Clauses /\ (p \notin Made \/ hist'.last[p] # hist.last[p])

\* C16: a clause call serializes to one parameter, named by the translated
\* field followed by the suffix of the category; its value is the scalar as
\* given, and for values_in and values_not_in the elements joined by commas
\* in the order given.
C16_ClauseIsOneParameter ==
    [][ \A p \in DOMAIN hist'.last :
          Applied(p) =>
            /\ DOMAIN filt' = DOMAIN filt \cup {ParamName(p)}
            /\ p[1] \in ListClauses =>
                   filt'[ParamName(p)] = PyStr(Joined(hist'.last[p]))
            /\ (p[1] \notin ListClauses /\ hist'.last[p].tag # "enum") =>
                   filt'[ParamName(p)] = hist'.last[p] ]_vars

\* values_in(id=[3, 11, 16]) has returned
C16_Witness ==
    /\ fresult = Returns(FilterSelf)
    /\ "id-in" \in DOMAIN filt
    /\ filt["id-in"] = PyStr("3,11,16")
    /\ <<"values_in", "id">> \in Made

\* the sort directives of the callers, by key and reverse
SortOnWire(kr) ==
    CASE kr = <<"name", FALSE>> -> "name"
      [] kr = <<"name", TRUE>> -> "-name"
      [] kr = <<"id", FALSE>> -> "id"
      [] kr = <<"id", TRUE>> -> "-id"

\* C17: once sort has been called the Filter holds one sort directive, that
\* of the last call: the bare key for ascending order, the key after a minus
\* sign for descending order.
C17_LastSortOnly ==
    <<"sort", "">> \in Made =>
        /\ "_sort" \in DOMAIN filt
        /\ filt["_sort"] = PyStr(SortOnWire(hist.last[<<"sort", "">>]))
        /\ \A k \in DOMAIN filt : filt[k] \in {PyStr("name"), PyStr("-name"),
                                              PyStr("id"), PyStr("-id")}
                                      => k = "_sort"

\* sort("name") and then sort("id", reverse=True)
C17_Witness ==
    /\ hist.replaced
    /\ fresult = Returns(FilterSelf)
    /\ DOMAIN filt = {"_sort"}
    /\ filt["_sort"] = PyStr("-id")

C19_OneCategoryPerField ==
    \A p, q \in Made :
        (/\ caller = ExampleCaller
         /\ p[1] \in Clauses /\ q[1] \in Clauses
         /\ p[2] = q[2]
         /\ ParamName(p) \in DOMAIN filt /\ ParamName(q) \in DOMAIN filt)
        => p[1] = q[1]

Directives == {"_q", "_sort", "_limit", "_offset"}

\* C19, amended: every category has its own parameter for a field. A call
\* leaves in place, unchanged, every clause parameter but the one of its own
\* category and field, so one field can be sent under several categories.
C19_CategoriesAreIndependent ==
    [][ \A k \in DOMAIN filt \ Directives :
          /\ k \in DOMAIN filt'
          /\ filt'[k] # filt[k] =>
               \E p \in DOMAIN hist'.last : Applied(p) /\ k = ParamName(p) ]_vars

\* equals(id=10) and values_in(id=[3, 11, 16]) on one Filter
C19_Witness ==
    /\ fresult = Returns(FilterSelf)
    /\ DOMAIN filt = {"id", "id-in"}
    /\ filt["id"] = PyInt(10)
    /\ filt["id-in"] = PyStr("3,11,16")

\* C20: building a Filter never fails: every builder call returns the
\* builder, whatever the field name and the value.
C20_BuilderNeverFails == fresult.kind # "raise"

----------------------------------------------------------------------------
(* The Filter across requests.                                              *)

\* C21: a request takes its filter parameters from the Filter as it stands
\* and leaves the Filter as it was: no step of a Client call changes the
\* Filter, and a GET sent with it carries every entry of the Filter and
\* beyond them only the extra parameters and the api_key.
C21_RequestLeavesFilter ==
    [][ /\ pc' # pc => filt' = filt
        /\ (pc' = "sent" /\ pc # "sent" /\ frame'.f # PyNone) =>
             /\ frame'.f = filt
             /\ \A k \in DOMAIN filt : wire'.kwargs.params[k] = filt[k]
             /\ DOMAIN wire'.kwargs.params \subseteq
                  DOMAIN filt \cup DOMAIN frame'.fields \cup {"api_key"} ]_vars

\* a GET is out with a filter on id, an extra parameter and the api_key
C21_Witness ==
    /\ OnWire
    /\ frame.f # PyNone
    /\ DOMAIN filt = {"id"}
    /\ DOMAIN frame.fields = {"_limit"}
    /\ DOMAIN wire.kwargs.params = {"id", "_limit", "api_key"}

----------------------------------------------------------------------------
(* Pagination.                                                              *)

IsPage == obj.kind = "Pagination"
Called(method) == IsPage /\ obj.method = method
EmptyPage ==
    [data |-> <<>>, result_count |-> 0, result_limit |-> 20,
     result_offset |-> 0, result_total |-> 0]

\* C22: a Pagination echoes the four result_ fields of its list response;
\* max() says offset + count = total, min() says offset = 0, page() is the
\* offset divided by the limit, rounded down; for the empty list response
\* min() and max() are both true and there are no results.
C22_PaginationReadsResponse ==
    IsPage =>
        /\ obj.self.count = obj.attrs.result_count
        /\ obj.self.limit = obj.attrs.result_limit
        /\ obj.self.offset = obj.attrs.result_offset
        /\ obj.self.total = obj.attrs.result_total
        /\ obj.method = "max" =>
             obj.value = PyBool(obj.attrs.result_offset + obj.attrs.result_count
                                  = obj.attrs.result_total)
        /\ obj.method = "min" => obj.value = PyBool(obj.attrs.result_offset = 0)
        /\ obj.method = "page" =>
             /\ obj.value.tag = "int"
             /\ obj.value.val * obj.attrs.result_limit <= obj.attrs.result_offset
             /\ obj.attrs.result_offset
                  < (obj.value.val + 1) * obj.attrs.result_limit
        /\ obj.attrs = EmptyPage =>
             /\ obj.results = <<>>
             /\ obj.method \in {"min", "max"} => obj.value = PyBool(TRUE)

\* max() on the Pagination of the empty list response
C22_Witness ==
    /\ Called("max")
    /\ obj.attrs = EmptyPage
    /\ obj.value = PyBool(TRUE)

Page(count, limit, offset, total) ==
    /\ obj.attrs.result_count = count /\ obj.attrs.result_limit = limit
    /\ obj.attrs.result_offset = offset /\ obj.attrs.result_total = total
LastPage ==
    obj.attrs.result_offset + obj.attrs.result_count = obj.attrs.result_total

\* C23: next() is offset + limit on a page that is not the last and the
\* offset itself on the last page; 20 for (count 20, limit 20, offset 0,
\* total 57), 40 for (count 17, limit 20, offset 40, total 57); on a full
\* page that is not the last it is below the total.
C23_NextOffset ==
    Called("next") =>
        /\ ~LastPage => obj.value = PyInt(obj.attrs.result_offset
                                            + obj.attrs.result_limit)
        /\ LastPage => obj.value = PyInt(obj.attrs.result_offset)
        /\ Page(20, 20, 0, 57) => obj.value = PyInt(20)
        /\ Page(17, 20, 40, 57) => obj.value = PyInt(40)
        /\ (~LastPage /\ obj.attrs.result_count = obj.attrs.result_limit) =>
              obj.value.val < obj.attrs.result_total

\* next() on the last of the documented pages
C23_Witness ==
    /\ Called("next")
    /\ Page(17, 20, 40, 57)
    /\ obj.value = PyInt(40)

\* C24: previous() is an offset that can be asked for: not negative, below
\* the current offset on a page that is not the first, the current offset on
\* the first page.
C24_PreviousOffset ==
    Called("previous") =>
        /\ obj.value.val >= 0
        /\ obj.attrs.result_offset # 0 =>
              obj.value.val < obj.attrs.result_offset
        /\ obj.attrs.result_offset = 0 => obj.value.val = 0

----------------------------------------------------------------------------
(* Calls from start to end.                                                 *)

InvalidCode == Raises("ValueError", <<"Security code must be 5 digits">>)
ExchangeAnswered == pc = "responded" /\ op = "email_exchange"

C28_EachCredentialChecked ==
    (op = "__init__" /\ OnWire) =>
        /\ Truthy(api_key) => HasApiKey
        /\ Truthy(access_token) => HasBearer

----------------------------------------------------------------------------
(* Status and body.                                                         *)

Decoded == Completed /\ wire.status_code # 204 /\ wire.content.json

\* C30: whether a response other than a 204 fails is decided by its decoded
\* body alone: with an error key it fails with the kind of error.code,
\* whatever the status; without one the body is returned as it is, whatever
\* the status.
C30_BodyDecides ==
    Decoded =>
        IF "error" \in DOMAIN wire.content.body
        THEN /\ checked.kind = "raise"
             /\ Envelope.code \in DOMAIN KindOfCode =>
                   checked.exc = KindOfCode[Envelope.code]
        ELSE checked = Returns(JsonObject(wire.content.body))

\* a 200 that failed, its error.code another number than its status
C30_Witness ==
    /\ pc = "idle"
    /\ Decoded
    /\ wire.status_code = 200
    /\ "error" \in DOMAIN wire.content.body
    /\ Envelope.code = 403
    /\ checked.kind = "raise"
    /\ checked.exc = "Forbidden"

----------------------------------------------------------------------------
(* Event types there and back.                                              *)

IsEvent == obj.kind = "Event"
Members == { EventType(EventTypeNames[i]) : i \in 1..Len(EventTypeNames) }

\* C29: the string a Filter sends for an event type is read back by
\* Event.type as that event type, and no two event types are sent as the
\* same string.
C29_EventTypeRoundTrip ==
    IsEvent =>
        /\ obj.attrs.event_type = EventOnWire[obj.self.val[2]]
        /\ obj.method = "type" => obj.value = Returns(obj.self)
        /\ \A e \in Members :
              _set_value("event_type", e).val = obj.attrs.event_type
                  => e = obj.self

\* Event.type has read MODFILE_CHANGED
C29_Witness ==
    /\ IsEvent
    /\ obj.method = "type"
    /\ obj.attrs.event_type = "MODFILE_CHANGED"
    /\ obj.value = Returns(EventType("file_changed"))

----------------------------------------------------------------------------
(* The rate-limit fields under interleaved calls.                           *)

\* the value a header had in the last completed response that carried it
LastSent(h, none) ==
    LET with == { k \in 1..Len(conc.done) : h \in DOMAIN conc.done[k] }
    IN  IF with = {} THEN none
        ELSE conc.done[CHOOSE k \in with : \A j \in with : j <= k][h]

====
